---- MODULE Spec2Model ----
(***************************************************************************)
(* Model of tools/report/report.py: generation of a Markdown report from a *)
(* CSV results file, a list of test-case configurations and the host       *)
(* environment.                                                            *)
(*                                                                         *)
(* Strings whose characters matter (cell values, paths) are sequences of   *)
(* one-character strings; dictionary keys are plain strings.  A mapping    *)
(* (dict / OrderedDict) is a sequence of <<key, value>> pairs with unique  *)
(* keys, in insertion order.                                               *)
(***************************************************************************)
EXTENDS Integers, Sequences, FiniteSets, TLC

VARIABLES
    mode,         \* "call": generate called by a caller; "main": run as a script
    testcases,    \* the caller's list of test-case configurations
    input_file,   \* path of the CSV results file
    templateOk,   \* whether report.jinja can be loaded
    fs,           \* file system: path -> file content
    pc,           \* position in the program
    args,         \* positional arguments of the call of generate
    confLoaded,   \* settings.load_from_dir('conf') was executed
    output_file,  \* local of generate (line 93)
    results,      \* list returned by _get_results
    i,            \* index of the next row of the for loop of line 101
    tests,        \* local of generate (line 99)
    exc,          \* exception in flight, "" when none
    log,          \* lines emitted by logging.info
    probeCalls,   \* number of calls of _get_env
    writes,       \* paths opened for writing, in order
    ret,          \* value returned by generate, <<>> when none
    stdout,       \* lines printed
    exitStatus    \* "" while running, then "success" or "error"

vars == <<mode, testcases, input_file, templateOk, fs, pc, args, confLoaded,
          output_file, results, i, tests, exc, log, probeCalls, writes, ret,
          stdout, exitStatus>>

----------------------------------------------------------------------------
(* Bounds *)

MaxRows == 2
MaxTestcases == 2

----------------------------------------------------------------------------
(* Mappings *)

Keys(m) == {m[k][1] : k \in 1..Len(m)}

Has(m, key) == key \in Keys(m)

Get(m, key) == m[CHOOSE k \in 1..Len(m) : m[k][1] = key][2]

\* del m[key]; the caller raises KeyError when the key is absent
Del(m, key) == SelectSeq(m, LAMBDA p : p[1] # key)

\* m[key] = value: a new key goes last, an existing key keeps its place
Put(m, key, value) ==
    IF Has(m, key)
    THEN [k \in 1..Len(m) |-> IF m[k][1] = key THEN <<key, value>> ELSE m[k]]
    ELSE Append(m, <<key, value>>)

Min(a, b) == IF a < b THEN a ELSE b

RECURSIVE ZipDict(_, _, _)
\* OrderedDict(zip(head, row)) restricted to the first n pairs
ZipDict(head, row, n) ==
    IF n = 0 THEN <<>>
    ELSE Put(ZipDict(head, row, n - 1), head[n], row[n])

OrderedDictZip(head, row) == ZipDict(head, row, Min(Len(head), Len(row)))

----------------------------------------------------------------------------
(* Strings *)

\* str.upper() on one character
UpperChar(c) ==
    CASE c = "a" -> "A"
      [] c = "b" -> "B"
      [] c = "s" -> "S"
      [] c = "t" -> "T"
      [] OTHER -> c

\* tc_id.upper() (line 116)
Upper(str) == [k \in 1..Len(str) |-> UpperChar(str[k])]

\* str.rfind(c), 1-based, 0 when c does not occur
RFind(p, c) ==
    IF \E k \in 1..Len(p) : p[k] = c
    THEN CHOOSE k \in 1..Len(p) : p[k] = c /\ \A j \in (k + 1)..Len(p) : p[j] # c
    ELSE 0

\* os.path.splitext(p): the extension starts at the last dot of the last
\* path component, unless only dots precede it in that component
Splitext(p) ==
    LET sepIndex == RFind(p, "/")
        dotIndex == RFind(p, ".")
    IN  IF dotIndex > sepIndex
           /\ \E k \in (sepIndex + 1)..(dotIndex - 1) : p[k] # "."
        THEN <<SubSeq(p, 1, dotIndex - 1), SubSeq(p, dotIndex, Len(p))>>
        ELSE <<p, <<>>>>

\* '.'.join(parts)
RECURSIVE Join(_)
Join(parts) ==
    IF Len(parts) = 0 THEN <<>>
    ELSE IF Len(parts) = 1 THEN parts[1]
    ELSE parts[1] \o <<".">> \o Join(Tail(parts))

\* variant of line 93 that cuts the path at its first dot
OutputPath_FirstDot(path) ==
    LET dots == {k \in 1..Len(path) : path[k] = "."}
        cut == IF dots = {} THEN Len(path) + 1
               ELSE CHOOSE k \in dots : \A d \in dots : k <= d
    IN  SubSeq(path, 1, cut - 1) \o <<".", "m", "d">>

\* line 93
OutputPath(path) == Join(<<Splitext(path)[1], <<"m", "d">>>>)

----------------------------------------------------------------------------
(* Program constants *)

\* ResultsConstants.ID and ResultsConstants.DEPLOYMENT
ID == "id"
DEPLOYMENT == "deployment"

\* def generate(testcases, input_file)
GenerateArity == 2

MsgWritten == "Test report written to \"%s\""
MsgIgnoring == "Report: Ignoring file (Wrongly defined columns): %s"
MsgMain == "Test report written to \"%s\"..."

----------------------------------------------------------------------------
(* Inputs *)

ResultsCsv == <<"r", "e", "s", "u", "l", "t", "s", ".", "c", "s", "v">>
ABCsv == <<"a", ".", "b", ".", "c", "s", "v">>
DotRc == <<".", "r", "c">>
DirOut == <<"d", ".", "x", "/", "o", "u", "t">>

Paths == {ResultsCsv, ABCsv, DotRc, DirOut}

ResultsMd == <<"r", "e", "s", "u", "l", "t", "s", ".", "m", "d">>
ABMd == <<"a", ".", "b", ".", "m", "d">>
DotRcMd == <<".", "r", "c", ".", "m", "d">>
DirOutMd == <<"d", ".", "x", "/", "o", "u", "t", ".", "m", "d">>

MdPaths == {ResultsMd, ABMd, DotRcMd, DirOutMd}

AllPaths == Paths \cup MdPaths

IdTA == <<"t", "A">>
IdB1 == <<"b", "1">>

Headers == { <<ID, DEPLOYMENT, "throughput", "latency">>,
             <<ID, "throughput">>,
             <<"throughput", DEPLOYMENT, ID, "throughput">> }

Rows == { <<IdTA>>,
          <<IdTA, <<"s">>, IdB1>>,
          <<IdB1, <<"s">>, IdTA, <<"9">>>> }

TcElems == { << <<"Name", IdTA>>, <<"Mode", <<"x">>>> >>,
             << <<"Mode", <<"y">>>>, <<"Name", IdTA>> >>,
             << <<"Mode", <<"x">>>> >> }

SeqsUpTo(S, n) == UNION {[1..k -> S] : k \in 0..n}

NoFile == [kind |-> "none", text |-> <<>>]
OldFile == [kind |-> "old", text |-> <<>>]
CsvFile(lines) == [kind |-> "csv", text |-> lines]
ReportFile(text) == [kind |-> "report", text |-> text]

\* the files generate may be given: absent, empty, or a header and data rows
InputFiles ==
    {NoFile, CsvFile(<<>>)}
    \cup {CsvFile(<<h>> \o rs) : h \in Headers, rs \in SeqsUpTo(Rows, MaxRows)}

----------------------------------------------------------------------------
(* Initial state *)

Init ==
    /\ mode \in {"call", "main"}
    /\ input_file \in Paths
    /\ testcases \in (IF mode = "call" THEN SeqsUpTo(TcElems, MaxTestcases) ELSE {<<>>})
    /\ templateOk \in BOOLEAN
    /\ \E f \in InputFiles, old \in BOOLEAN :
           fs = [p \in AllPaths |->
                    IF p = input_file THEN f
                    ELSE IF old /\ p \in MdPaths THEN OldFile
                    ELSE NoFile]
    /\ pc = "start"
    /\ args = <<>>
    /\ confLoaded = FALSE
    /\ output_file = <<>>
    /\ results = <<>>
    /\ i = 1
    /\ tests = <<>>
    /\ exc = ""
    /\ log = <<>>
    /\ probeCalls = 0
    /\ writes = <<>>
    /\ ret = <<>>
    /\ stdout = <<>>
    /\ exitStatus = ""

----------------------------------------------------------------------------
(* Helpers of generate *)

\* systeminfo.get_os() ... systeminfo.get_platform(): opaque host facts
HostFacts == [os |-> <<"o">>, kernel |-> <<"k">>, nic |-> <<"n">>,
              cpu |-> <<"c">>, cpu_cores |-> <<"2">>, memory |-> <<"m">>,
              platform |-> <<"p">>]

\* variant of _get_env() without the 'memory' entry
GetEnv_NoMemory ==
    << <<"os", HostFacts.os>>, <<"kernel", HostFacts.kernel>>,
       <<"nic", HostFacts.nic>>, <<"cpu", HostFacts.cpu>>,
       <<"cpu_cores", HostFacts.cpu_cores>>,
       <<"platform", HostFacts.platform>> >>

\* _get_env()
GetEnv ==
    << <<"os", HostFacts.os>>, <<"kernel", HostFacts.kernel>>,
       <<"nic", HostFacts.nic>>, <<"cpu", HostFacts.cpu>>,
       <<"cpu_cores", HostFacts.cpu_cores>>, <<"memory", HostFacts.memory>>,
       <<"platform", HostFacts.platform>> >>

\* variant of _get_results() that returns the rows last first
ReadResults_Reversed(lines) ==
    [k \in 1..(Len(lines) - 1) |->
        OrderedDictZip(lines[1], lines[Len(lines) + 1 - k])]

\* _get_results(): the rows after the header, each zipped with the header
ReadResults(lines) ==
    [k \in 1..(Len(lines) - 1) |-> OrderedDictZip(lines[1], lines[k + 1])]

\* variant of lines 102-106 without the break: every element is inspected and
\* the last match is kept
FindConf_NoBreak(tcs, result, j) ==
    LET rest == j..Len(tcs)
        hits == {h \in rest : Has(tcs[h], "Name") /\ Has(result, ID)
                                /\ Get(tcs[h], "Name") = Get(result, ID)}
    IN  IF \E h \in rest : ~Has(tcs[h], "Name") \/ ~Has(result, ID)
        THEN [err |-> TRUE, conf |-> <<>>]
        ELSE IF hits = {} THEN [err |-> FALSE, conf |-> <<>>]
        ELSE [err |-> FALSE,
              conf |-> tcs[CHOOSE h \in hits : \A g \in hits : g <= h]]

\* variant of lines 102-106 that reads tc_conf.get('Name'): an element
\* without Name matches nothing and raises nothing
FindConf_GetName(tcs, result, j) ==
    LET rest == j..Len(tcs)
        hits == {h \in rest : Has(tcs[h], "Name") /\ Has(result, ID)
                                /\ Get(tcs[h], "Name") = Get(result, ID)}
    IN  IF rest # {} /\ ~Has(result, ID)
        THEN [err |-> TRUE, conf |-> <<>>]
        ELSE IF hits = {} THEN [err |-> FALSE, conf |-> <<>>]
        ELSE [err |-> FALSE,
              conf |-> tcs[CHOOSE h \in hits : \A g \in hits : h <= g]]

RECURSIVE FindConf(_, _, _)
\* lines 102-106: the search of testcases from element j on; err when
\* tc_conf['Name'] or result[ResultsConstants.ID] raises KeyError
FindConf(tcs, result, j) ==
    IF j > Len(tcs) THEN [err |-> FALSE, conf |-> <<>>]
    ELSE IF ~Has(tcs[j], "Name") \/ ~Has(result, ID)
         THEN [err |-> TRUE, conf |-> <<>>]
    ELSE IF Get(tcs[j], "Name") = Get(result, ID)
         THEN [err |-> FALSE, conf |-> tcs[j]]
    ELSE FindConf(tcs, result, j + 1)

\* variant of lines 111-112 that deletes the identifier only
RowResult_KeepDeployment(result) == Del(result, ID)

\* lines 111-112
RowResult(result) == Del(Del(result, ID), DEPLOYMENT)

\* lines 115-122
Entry(tc_id, tc_deployment, test_config, result, env) ==
    [ID |-> Upper(tc_id), id |-> tc_id, deployment |-> tc_deployment,
     conf |-> test_config, result |-> result, env |-> env]

\* variant of line 133: except ValueError
Caught_ValueError(e) == e = "ValueError"

\* variant of line 133: a bare except
Caught_All(e) == TRUE

\* line 133: the exceptions the handler of the try block catches
Caught(e) == e = "KeyError"

\* where an exception raised inside the try block of lines 100-135 goes
RaiseInTry(e) ==
    /\ exc' = e
    /\ pc' = IF Caught(e) THEN "except" ELSE "raised"

LogLine(msg, arg) == [msg |-> msg, arg |-> arg]

----------------------------------------------------------------------------
(* Actions *)

\* lines 139-141: the script loads the settings and calls generate(sys.argv[1])
MainEntry ==
    /\ pc = "start" /\ mode = "main"
    /\ confLoaded' = TRUE
    /\ args' = <<input_file>>
    /\ pc' = "call"
    /\ UNCHANGED <<mode, testcases, input_file, templateOk, fs, output_file,
                   results, i, tests, exc, log, probeCalls, writes, ret,
                   stdout, exitStatus>>

\* a caller calls generate(testcases, input_file)
CallerEntry ==
    /\ pc = "start" /\ mode = "call"
    /\ args' = <<testcases, input_file>>
    /\ pc' = "call"
    /\ UNCHANGED <<mode, testcases, input_file, templateOk, fs, confLoaded,
                   output_file, results, i, tests, exc, log, probeCalls,
                   writes, ret, stdout, exitStatus>>

\* line 83: binding of the positional arguments to (testcases, input_file)
Bind ==
    /\ pc = "call"
    /\ IF Len(args) = GenerateArity
       THEN pc' = "output" /\ exc' = exc
       ELSE pc' = "raised" /\ exc' = "TypeError"
    /\ UNCHANGED <<mode, testcases, input_file, templateOk, fs, args,
                   confLoaded, output_file, results, i, tests, log,
                   probeCalls, writes, ret, stdout, exitStatus>>

\* line 93
DeriveOutput ==
    /\ pc = "output"
    /\ output_file' = OutputPath(args[2])
    /\ pc' = "template"
    /\ UNCHANGED <<mode, testcases, input_file, templateOk, fs, args,
                   confLoaded, results, i, tests, exc, log, probeCalls,
                   writes, ret, stdout, exitStatus>>

\* lines 95-97, outside the try block
LoadTemplate ==
    /\ pc = "template"
    /\ IF templateOk
       THEN pc' = "results" /\ exc' = exc
       ELSE pc' = "raised" /\ exc' = "TemplateNotFound"
    /\ UNCHANGED <<mode, testcases, input_file, templateOk, fs, args,
                   confLoaded, output_file, results, i, tests, log,
                   probeCalls, writes, ret, stdout, exitStatus>>

\* lines 99-101 and 73-80: tests = [] and the call of _get_results
GetResults ==
    /\ pc = "results"
    /\ tests' = <<>>
    /\ LET f == fs[args[2]]
       IN  IF f.kind = "none"
           THEN RaiseInTry("FileNotFoundError") /\ UNCHANGED <<results, i>>
           ELSE IF Len(f.text) = 0
           THEN RaiseInTry("StopIteration") /\ UNCHANGED <<results, i>>
           ELSE /\ results' = ReadResults(f.text)
                /\ i' = 1
                /\ pc' = "loop"
                /\ exc' = exc
    /\ UNCHANGED <<mode, testcases, input_file, templateOk, fs, args,
                   confLoaded, output_file, log, probeCalls, writes, ret,
                   stdout, exitStatus>>

\* lines 101-122: one iteration of the loop over the rows
LoopRow ==
    /\ pc = "loop" /\ i <= Len(results)
    /\ LET result == results[i]
           found == FindConf(args[1], result, 1)
       IN  IF found.err \/ ~Has(result, ID) \/ ~Has(result, DEPLOYMENT)
           THEN RaiseInTry("KeyError")
                /\ UNCHANGED <<results, i, tests, probeCalls>>
           ELSE /\ results' = [results EXCEPT ![i] = RowResult(result)]
                /\ tests' = Append(tests,
                                   Entry(Get(result, ID), Get(result, DEPLOYMENT),
                                         found.conf, RowResult(result), GetEnv))
                /\ probeCalls' = probeCalls + 1
                /\ i' = i + 1
                /\ pc' = pc
                /\ exc' = exc
    /\ UNCHANGED <<mode, testcases, input_file, templateOk, fs, args,
                   confLoaded, output_file, log, writes, ret, stdout,
                   exitStatus>>

\* lines 124-131: render the template, write the text, log the success
RenderAndWrite ==
    /\ pc = "loop" /\ i > Len(results)
    /\ fs' = (output_file :> ReportFile(tests)) @@ fs
    /\ writes' = Append(writes, output_file)
    /\ log' = Append(log, LogLine(MsgWritten, output_file))
    /\ pc' = "return"
    /\ UNCHANGED <<mode, testcases, input_file, templateOk, args, confLoaded,
                   output_file, results, i, tests, exc, probeCalls, ret,
                   stdout, exitStatus>>

\* lines 133-135: log the file and re-raise
ExceptKeyError ==
    /\ pc = "except"
    /\ log' = Append(log, LogLine(MsgIgnoring, args[2]))
    /\ pc' = "raised"
    /\ UNCHANGED <<mode, testcases, input_file, templateOk, fs, args,
                   confLoaded, output_file, results, i, tests, exc,
                   probeCalls, writes, ret, stdout, exitStatus>>

\* line 136
Return ==
    /\ pc = "return"
    /\ ret' = output_file
    /\ pc' = "returned"
    /\ UNCHANGED <<mode, testcases, input_file, templateOk, fs, args,
                   confLoaded, output_file, results, i, tests, exc, log,
                   probeCalls, writes, stdout, exitStatus>>

\* the call is over: the caller has the value or the exception; the script
\* prints the path (line 142) or dies of the uncaught exception
Exit ==
    /\ pc \in {"returned", "raised"}
    /\ exitStatus' = IF pc = "returned" THEN "success" ELSE "error"
    /\ stdout' = IF pc = "returned" /\ mode = "main"
                 THEN Append(stdout, LogLine(MsgMain, ret))
                 ELSE stdout
    /\ pc' = "done"
    /\ UNCHANGED <<mode, testcases, input_file, templateOk, fs, args,
                   confLoaded, output_file, results, i, tests, exc, log,
                   probeCalls, writes, ret>>

Next ==
    \/ MainEntry
    \/ CallerEntry
    \/ Bind
    \/ DeriveOutput
    \/ LoadTemplate
    \/ GetResults
    \/ LoopRow
    \/ RenderAndWrite
    \/ ExceptKeyError
    \/ Return
    \/ Exit

Spec == Init /\ [][Next]_vars

----------------------------------------------------------------------------
(* Vocabulary of the properties, stated on the CSV text and the arguments   *)
(* rather than on the locals of generate                                    *)

InputCsv == fs[input_file]

HasHeader == InputCsv.kind = "csv" /\ Len(InputCsv.text) >= 1

Header == InputCsv.text[1]

DataRows == Tail(InputCsv.text)

\* the columns of a data row: the header positions the row has a cell for
Cols(row) == 1..Min(Len(Header), Len(row))

RowHas(row, key) == \E c \in Cols(row) : Header[c] = key

\* the cell of the last column named key (a later duplicate column wins)
Cell(row, key) ==
    row[CHOOSE c \in Cols(row) :
            Header[c] = key /\ \A d \in Cols(row) : Header[d] = key => d <= c]

\* the position of the first column named key
FirstCol(row, key) ==
    CHOOSE c \in Cols(row) :
        Header[c] = key /\ \A d \in Cols(row) : Header[d] = key => d >= c

RowComplete(row) == RowHas(row, ID) /\ RowHas(row, DEPLOYMENT)

AllRowsComplete == \A k \in 1..Len(DataRows) : RowComplete(DataRows[k])

Named(tc) == \E k \in 1..Len(tc) : tc[k][1] = "Name"

NameOf(tc) == tc[CHOOSE k \in 1..Len(tc) : tc[k][1] = "Name"][2]

Matches(tc, ident) == Named(tc) /\ NameOf(tc) = ident

\* the in-order search for ident meets an element without Name before a match
NamelessBeforeMatch(ident) ==
    \E j \in 1..Len(testcases) :
        /\ ~Named(testcases[j])
        /\ \A h \in 1..(j - 1) : ~Matches(testcases[h], ident)

\* the search of no complete row meets an element without Name
SearchClean ==
    \A k \in 1..Len(DataRows) :
        RowComplete(DataRows[k]) => ~NamelessBeforeMatch(Cell(DataRows[k], ID))

\* no file other than the input exists with another content than at the start
OutputsUntouched ==
    /\ writes = <<>>
    /\ \E old \in {NoFile, OldFile} : \A p \in MdPaths : fs[p] = old
    /\ \A p \in Paths \ {input_file} : fs[p] = NoFile

Failed(e) == exitStatus = "error" /\ exc = e

Succeeded == pc = "done" /\ exitStatus = "success"

----------------------------------------------------------------------------
\* C1: for a CSV with a header and N data rows that all have the identifier
\* and deployment fields (template loadable, no element without Name met by
\* a search), generate succeeds and the tests sequence given to the template
\* has exactly N entries, the k-th built from the k-th data row.
Thm_C1_OneEntryPerRowInOrder ==
    (mode = "call" /\ templateOk /\ HasHeader /\ AllRowsComplete
        /\ SearchClean /\ pc = "done")
    => /\ exitStatus = "success"
       /\ fs[ret].kind = "report"
       /\ Len(fs[ret].text) = Len(DataRows)
       /\ fs[ret].text = tests
       /\ \A k \in 1..Len(DataRows) :
              /\ tests[k].id = Cell(DataRows[k], ID)
              /\ tests[k].deployment = Cell(DataRows[k], DEPLOYMENT)
              /\ \A key \in Keys(tests[k].result) :
                     Get(tests[k].result, key) = Cell(DataRows[k], key)

Wit_C1_TwoDistinctRows ==
    /\ Succeeded /\ mode = "call"
    /\ Len(DataRows) = 2
    /\ Len(tests) = 2
    /\ tests[1].id = IdB1 /\ tests[2].id = IdTA

----------------------------------------------------------------------------
\* C2: the conf of a row's entry is the first element of testcases, in
\* order, whose Name equals the row's identifier, also when several elements
\* have that Name; when none matches conf is the empty mapping, and with
\* test cases that all have a Name (none included) generation does not fail.
Thm_C2_FirstMatchOrEmpty ==
    /\ \A k \in 1..Len(tests) :
           LET ident == Cell(DataRows[k], ID)
               hits == {j \in 1..Len(testcases) : Matches(testcases[j], ident)}
           IN  IF hits = {}
               THEN tests[k].conf = <<>>
               ELSE tests[k].conf =
                        testcases[CHOOSE j \in hits : \A h \in hits : j <= h]
    /\ (mode = "call" /\ templateOk /\ HasHeader /\ AllRowsComplete
           /\ (\A j \in 1..Len(testcases) : Named(testcases[j]))
           /\ pc = "done")
       => exitStatus = "success" /\ Len(tests) = Len(DataRows)

\* two elements named like the row, and a row that matches none
Wit_C2_DuplicateAndNoMatch ==
    /\ Succeeded
    /\ Len(testcases) = 2
    /\ Matches(testcases[1], IdTA) /\ Matches(testcases[2], IdTA)
    /\ testcases[1] # testcases[2]
    /\ Len(tests) = 2
    /\ tests[1].id = IdTA /\ tests[1].conf = testcases[1]
    /\ tests[2].id = IdB1 /\ tests[2].conf = <<>>

----------------------------------------------------------------------------
\* C3: the result mapping of a row's entry holds exactly the row's columns
\* other than the identifier and deployment columns, with the row's values
\* and in column order; id is the row's identifier, ID the identifier in
\* upper case, deployment the row's deployment value.
Thm_C3_EntryFields ==
    \A k \in 1..Len(tests) :
        LET row == DataRows[k]
            e == tests[k]
            res == e.result
        IN  /\ e.id = Cell(row, ID)
            /\ e.deployment = Cell(row, DEPLOYMENT)
            /\ e.id = IdTA => e.ID = <<"T", "A">>
            /\ e.id = IdB1 => e.ID = <<"B", "1">>
            /\ e.id \in {IdTA, IdB1}
            /\ Keys(res) = {Header[c] : c \in Cols(row)} \ {ID, DEPLOYMENT}
            /\ Len(res) = Cardinality(Keys(res))
            /\ \A n \in 1..Len(res) : res[n][2] = Cell(row, res[n][1])
            /\ \A n, m \in 1..Len(res) :
                   n < m => FirstCol(row, res[n][1]) < FirstCol(row, res[m][1])

\* an entry with two metric columns, and one of a row shorter than the header
Wit_C3_TwoMetrics ==
    /\ Succeeded
    /\ Len(tests) = 2
    /\ tests[1].result = << <<"throughput", IdTA>>, <<"latency", <<"9">>>> >>
    /\ tests[1].ID = <<"B", "1">>
    /\ tests[2].result = << <<"throughput", IdB1>> >>

----------------------------------------------------------------------------
\* C4 (as claimed): a CSV whose header lacks the deployment column, with any
\* number of data rows, makes generate fail with the missing-field error and
\* write no file.
Orig_C4_HeaderWithoutDeploymentFails ==
    (mode = "call" /\ templateOk /\ HasHeader
        /\ (\A c \in 1..Len(Header) : Header[c] # DEPLOYMENT)
        /\ pc = "done")
    => Failed("KeyError") /\ writes = <<>>

----------------------------------------------------------------------------
\* C5: when some data row lacks the identifier or the deployment field (the
\* template loadable, the file with a header), no file is ever created or
\* modified, and generate ends by raising KeyError after exactly one log
\* line, the 'wrongly defined columns' line naming the input file.
Thm_C5_BadRowAbortsWithoutOutput ==
    (mode = "call" /\ templateOk /\ HasHeader /\ ~AllRowsComplete)
    => /\ OutputsUntouched
       /\ pc \in {"raised", "done"}
            => /\ exc = "KeyError"
               /\ log = <<LogLine(MsgIgnoring, input_file)>>
               /\ ret = <<>>
       /\ pc = "done" => exitStatus = "error"

\* the bad row is the second one, the first one was processed, and an old
\* output file exists
Wit_C5_BadRowAfterGoodRow ==
    /\ pc = "done" /\ mode = "call" /\ templateOk /\ HasHeader
    /\ Len(DataRows) = 2
    /\ RowComplete(DataRows[1]) /\ ~RowComplete(DataRows[2])
    /\ Len(tests) = 1
    /\ fs[ResultsMd] = OldFile /\ input_file = ResultsCsv
    /\ Len(log) = 1

----------------------------------------------------------------------------
\* C6: a successful call of generate writes exactly one file; its path is
\* the input path with only the final extension replaced by '.md'
\* (results.csv -> results.md, a.b.csv -> a.b.md); what was at that path is
\* replaced by the rendered text; the value returned is that path.
Thm_C6_OutputPathWrittenAndReturned ==
    Succeeded
    => /\ writes = <<ret>>
       /\ fs[ret] = ReportFile(tests)
       /\ input_file = ResultsCsv => ret = ResultsMd
       /\ input_file = ABCsv => ret = ABMd
       /\ \E n \in 0..Len(input_file) :
              LET ext == SubSeq(input_file, n + 1, Len(input_file))
              IN  /\ ret = SubSeq(input_file, 1, n) \o <<".", "m", "d">>
                  /\ ext # <<>> => ext[1] = "."
                  /\ \A c \in 2..Len(ext) : ext[c] \notin {".", "/"}
       /\ InputCsv.kind = "csv"
       /\ \E old \in {NoFile, OldFile} : \A p \in MdPaths \ {ret} : fs[p] = old
       /\ \A p \in Paths \ {input_file} : fs[p] = NoFile

\* a.b.csv, with an old a.b.md that is overwritten
Wit_C6_OverwritesOldFile ==
    /\ Succeeded
    /\ input_file = ABCsv
    /\ ret = ABMd
    /\ fs[ResultsMd] = OldFile
    /\ fs[ABMd].kind = "report"
    /\ Len(tests) = 1

----------------------------------------------------------------------------
\* C7 (as claimed): run as a script on a readable, well-formed CSV file, the
\* module generates the report, prints the output path and ends in success.
Orig_C7_StandaloneRunSucceeds ==
    (mode = "main" /\ templateOk /\ HasHeader /\ AllRowsComplete /\ pc = "done")
    => /\ exitStatus = "success"
       /\ stdout = <<LogLine(MsgMain, ret)>>
       /\ writes = <<ret>>

----------------------------------------------------------------------------
\* C8 (as claimed): one call of generate queries the environment probe
\* exactly once, whatever the number of data rows.
Orig_C8_OneSnapshotPerCall ==
    Succeeded => probeCalls = 1

EnvKeys == <<"os", "kernel", "nic", "cpu", "cpu_cores", "memory", "platform">>

\* C8 (amended): the environment probe is queried once for every entry
\* appended to tests, so N times in a successful call on N data rows and not
\* at all when there are none; the env of every entry has exactly the keys
\* os, kernel, nic, cpu, cpu_cores, memory, platform.
Thm_C8_OneSnapshotPerRow ==
    /\ probeCalls = Len(tests)
    /\ Succeeded => probeCalls = Len(DataRows)
    /\ \A k \in 1..Len(tests) :
           /\ Len(tests[k].env) = Len(EnvKeys)
           /\ \A n \in 1..Len(EnvKeys) : tests[k].env[n][1] = EnvKeys[n]

Wit_C8_TwoRowsTwoSnapshots ==
    /\ Succeeded
    /\ Len(DataRows) = 2
    /\ probeCalls = 2
    /\ Len(tests) = 2

----------------------------------------------------------------------------
\* C9: when the input file does not exist or the template cannot be loaded,
\* generate raises that error itself (a missing template first), no file is
\* created or modified and nothing is logged: neither the success line nor
\* the 'wrongly defined columns' line.
Thm_C9_AccessErrorsPropagateUnlogged ==
    (mode = "call" /\ (~templateOk \/ InputCsv.kind = "none"))
    => /\ OutputsUntouched
       /\ log = <<>>
       /\ pc \in {"raised", "done"}
            => /\ exc = IF templateOk THEN "FileNotFoundError"
                        ELSE "TemplateNotFound"
               /\ ret = <<>>
       /\ pc = "done" => exitStatus = "error"

\* the template is there, the input file is not, an old output file is
Wit_C9_MissingInputFile ==
    /\ pc = "done" /\ mode = "call"
    /\ templateOk /\ InputCsv.kind = "none"
    /\ input_file = ResultsCsv /\ fs[ResultsMd] = OldFile
    /\ exc = "FileNotFoundError"

----------------------------------------------------------------------------
\* C10: on a CSV whose rows all have the identifier and deployment fields,
\* generate fails exactly when the search of some row meets an element of
\* testcases without Name before a match; it then takes the path of a row
\* with a missing field (KeyError, one 'wrongly defined columns' line naming
\* the input file, no output file).  An element without Name after the first
\* match of every row, or with no data rows, causes no failure.
Thm_C10_NamelessTestcaseIsKeyError ==
    (mode = "call" /\ templateOk /\ HasHeader /\ AllRowsComplete /\ pc = "done")
    => /\ exitStatus = "error" <=> ~SearchClean
       /\ exitStatus = "error"
            => /\ exc = "KeyError"
               /\ log = <<LogLine(MsgIgnoring, input_file)>>
               /\ OutputsUntouched
               /\ ret = <<>>
       /\ exitStatus = "success"
            => log = <<LogLine(MsgWritten, ret)>> /\ Len(tests) = Len(DataRows)

\* a failure on complete rows: the first row matches before the element
\* without Name, the second one does not
Wit_C10_NamelessReachedBySecondRow ==
    /\ pc = "done" /\ mode = "call" /\ templateOk /\ HasHeader
    /\ AllRowsComplete
    /\ Len(DataRows) = 2
    /\ Len(testcases) = 2
    /\ Named(testcases[1]) /\ ~Named(testcases[2])
    /\ Len(tests) = 1
    /\ exitStatus = "error"

\* an element without Name that no search reaches
Reach_C10_NamelessNeverInspected ==
    /\ Succeeded
    /\ Len(testcases) = 2
    /\ ~Named(testcases[2])
    /\ Len(tests) >= 1

\* an element without Name and no data rows
Reach_C10_NamelessNoRows ==
    /\ Succeeded
    /\ Len(testcases) >= 1
    /\ ~Named(testcases[1])
    /\ Len(DataRows) = 0

====
